---- MODULE Spec2Model ----
(***************************************************************************)
(* A model of gha-doc's graph code:                                        *)
(*   - src/src/analyzer.py: WorkflowAnalyzer._analyze_job_dependencies and *)
(*     WorkflowAnalyzer._generate_execution_flow (job leveling);           *)
(*   - src/src/main.py: extract_called_workflows, find_roots_and_orphans   *)
(*     and collect_all_called (the cross-workflow call graph),             *)
(*     parse_workflow_file, build_workflow_call_graph and the loops of     *)
(*     main over the roots and the orphans.                                *)
(* Python strings are TLA+ strings; str methods are operators over them.   *)
(* Iterating a Python set of strings has no specified order (it depends on *)
(* the per-process hash seed), so every such iteration is a                *)
(* nondeterministic choice.                                                *)
(***************************************************************************)
EXTENDS Naturals, Integers, Sequences, FiniteSets, TLC

VARIABLES
    \* ---- WorkflowAnalyzer (analyzer.py)
    jobs,           \* self.workflow_data['jobs']: job id -> needs value
    dependencies,   \* the map returned by _analyze_job_dependencies
    graph,          \* _generate_execution_flow: graph
    remaining,      \* _generate_execution_flow: remaining
    levels,         \* _generate_execution_flow: levels
    forced,         \* nodes placed by the cycle-breaking branch (history)
    warnings,       \* number of "Dependency cycle detected" lines printed
    prev,           \* the levels returned by the previous run on the same jobs
    apc,            \* position inside the analyzer
    \* ---- call graph (main.py)
    call_graph,     \* reference -> set of references it calls
    workflow_files, \* the discovered files, in glob order
    roots,          \* find_roots_and_orphans: roots
    orphans,        \* find_roots_and_orphans: orphans (as a set)
    start,          \* collect_all_called: the wf of the outermost call
    stack,          \* collect_all_called: the active calls, outermost first
    seen,           \* collect_all_called: seen
    result,         \* collect_all_called: the set the outermost call returned
    expandLog,      \* references whose call set was iterated, in order (history)
    deepest,        \* largest depth argument of any call so far (history)
    gpc,            \* position inside the call-graph functions
    \* ---- extract_called_workflows (main.py)
    xjobs,          \* the uses of each job of parsed_data, in dict order ("": none)
    workdir,        \* workdir
    current_workflow_path,
    xi,             \* index of the job the loop is at
    called,         \* called
    xpc,            \* position inside extract_called_workflows
    \* ---- build_workflow_call_graph (main.py)
    world,          \* what is on disk and on the remote host: location -> content
    parsed,         \* parsed: reference -> parsed data (the uses of its jobs)
    key_order,      \* the keys of call_graph in insertion order
    round,          \* number of the expansion round being run (0: none yet)
    bi,             \* index of the discovered file the first loop is at
    bkeys,          \* list(call_graph.keys()) of this round, the part not yet visited
    btodo,          \* list(calls) of the key being visited, the part not yet visited
    new_calls,      \* new_calls
    round_new,      \* new_calls at the end of each finished round (history)
    attempts,       \* parse_workflow_file calls made: reference -> count (history)
    failed,         \* references whose parse_workflow_file call returned None (history)
    prev_build,     \* what the previous build on the same files returned
    bpc,            \* position inside build_workflow_call_graph
    \* ---- main (main.py)
    mtodo,          \* the roots, then the orphans, not yet processed
    documented,     \* documented
    outputs,        \* references whose documentation was generated (history)
    lookups,        \* keys parsed was indexed or tested with after the build (history)
    mpc             \* position inside main

avars == <<jobs, dependencies, graph, remaining, levels, forced, warnings, prev, apc>>

gvars == <<call_graph, workflow_files, roots, orphans, start, stack, seen, result,
           expandLog, deepest, gpc>>

xvars == <<xjobs, workdir, current_workflow_path, xi, called, xpc>>

bvars == <<world, parsed, key_order, round, bi, bkeys, btodo, new_calls, round_new,
           attempts, failed, prev_build, bpc>>

mvars == <<mtodo, documented, outputs, lookups, mpc>>

vars == <<avars, gvars, xvars, bvars, mvars>>

-----------------------------------------------------------------------------
(* Generic helpers                                                         *)

Range(s) == {s[i] : i \in DOMAIN s}

Max(S) == CHOOSE m \in S : \A n \in S : n <= m

\* Sequences over S of length at most n.
SeqsUpTo(S, n) == UNION {[1..k -> S] : k \in 0..n}

-----------------------------------------------------------------------------
(* Job identifiers.  IdOrder lists them in Python's str order, which is    *)
(* what sorted() uses.                                                     *)

IdOrder == <<"A", "B", "C", "Z">>

\* Identifiers that may be declared as jobs; "Z" is only ever referenced.
JobIds == {"A", "B", "C"}

NodeIds == Range(IdOrder)

Rank(id) == CHOOSE i \in 1..Len(IdOrder) : IdOrder[i] = id

\* Longest needs list drawn as input.
MaxNeeds == 2

-----------------------------------------------------------------------------
(* needs values: the shapes job_data.get('needs', []) can have.            *)

NeedsAbsent == [kind |-> "absent", id |-> "", ids |-> <<>>]
NeedsOther == [kind |-> "other", id |-> "", ids |-> <<>>]
NeedsStr(i) == [kind |-> "str", id |-> i, ids |-> <<>>]
NeedsList(l) == [kind |-> "list", id |-> "", ids |-> l]

\* sorted(list(level)): ascending by identifier.
RECURSIVE SortedReversed(_)
SortedReversed(S) ==
    IF S = {} THEN <<>>
    ELSE LET m == CHOOSE x \in S : \A y \in S : Rank(y) <= Rank(x)
         IN <<m>> \o SortedReversed(S \ {m})

RECURSIVE Sorted(_)
Sorted(S) ==
    IF S = {} THEN <<>>
    ELSE LET m == CHOOSE x \in S : \A y \in S : Rank(x) <= Rank(y)
         IN <<m>> \o Sorted(S \ {m})

\* analyzer.py 41-50 with a str taken as a sequence of characters (list(needs)).
JobNeedsNoStr(needs) ==
    IF needs.kind = "list" THEN needs.ids ELSE <<>>

\* analyzer.py 42-50: the list stored for one job.
JobNeeds(needs) ==
    CASE needs.kind = "str" -> <<needs.id>>
      [] needs.kind = "list" -> needs.ids
      [] OTHER -> <<>>

\* analyzer.py 37-52
AnalyzeJobDependencies(jobTable) ==
    [job_id \in DOMAIN jobTable |-> JobNeeds(jobTable[job_id])]

\* analyzer.py 146 only: the graph without the dependency-only nodes.
BuildGraphNoClosure(jobTable) ==
    LET deps == AnalyzeJobDependencies(jobTable)
    IN [job_id \in DOMAIN deps |-> Range(deps[job_id])]

\* analyzer.py 146-155: the dependency graph closed over referenced ids.
BuildGraph(jobTable) ==
    LET deps == AnalyzeJobDependencies(jobTable)
        g0 == [job_id \in DOMAIN deps |-> Range(deps[job_id])]
        all_deps == UNION {g0[job_id] : job_id \in DOMAIN g0}
    IN [n \in (DOMAIN g0) \cup all_deps |-> IF n \in DOMAIN g0 THEN g0[n] ELSE {}]

\* analyzer.py 163 with all() in place of any().
ReadyAll(g, rem) ==
    {job \in rem : ~(\A dep \in g[job] : dep \in rem)}

\* analyzer.py 163 with a job's own identifier left out of the test.
ReadyIgnoringSelf(g, rem) ==
    {job \in rem : ~(\E dep \in g[job] \ {job} : dep \in rem)}

\* analyzer.py 163: jobs with no dependency inside the remaining set.
Ready(g, rem) ==
    {job \in rem : ~(\E dep \in g[job] : dep \in rem)}

\* analyzer.py 168 picking nothing.
CyclePickNone(rem) == {{}}

\* analyzer.py 168: {next(iter(remaining))}; the first element a set of str
\* yields is any of its elements.
CyclePick(rem) == {{job} : job \in rem}

-----------------------------------------------------------------------------
(* Inputs                                                                  *)

\* needs values of the leveling runs: absent, one id, or a list of distinct ids.
FlowNeeds ==
    {NeedsAbsent}
    \cup {NeedsStr(i) : i \in NodeIds}
    \cup {NeedsList(Sorted(S)) : S \in {T \in SUBSET NodeIds : Cardinality(T) <= MaxNeeds}}

\* needs values of every shape, lists with repetitions included.
AllNeeds ==
    {NeedsAbsent, NeedsOther}
    \cup {NeedsStr(i) : i \in NodeIds}
    \cup {NeedsList(l) : l \in SeqsUpTo(NodeIds, MaxNeeds)}

JobTables(ids, needsValues) ==
    UNION {[D -> needsValues] : D \in SUBSET ids}

NoPrev == [has |-> FALSE, levels |-> <<>>]

ExtractIdle ==
    /\ xjobs = <<>>
    /\ workdir = ""
    /\ current_workflow_path = ""
    /\ xi = 0
    /\ called = {}
    /\ xpc = "idle"

GraphIdle ==
    /\ call_graph = <<>>
    /\ workflow_files = <<>>
    /\ roots = <<>>
    /\ orphans = {}
    /\ start = ""
    /\ stack = <<>>
    /\ seen = {}
    /\ result = {}
    /\ expandLog = <<>>
    /\ deepest = 0
    /\ gpc = "idle"

AnalyzerIdle ==
    /\ dependencies = <<>>
    /\ graph = <<>>
    /\ remaining = {}
    /\ levels = <<>>
    /\ forced = {}
    /\ warnings = 0
    /\ prev = NoPrev

NoPrevBuild == [has |-> FALSE, parsed |-> <<>>, call_graph |-> <<>>]

BuildIdle ==
    /\ world = <<>>
    /\ parsed = <<>>
    /\ key_order = <<>>
    /\ round = 0
    /\ bi = 0
    /\ bkeys = <<>>
    /\ btodo = {}
    /\ new_calls = {}
    /\ round_new = <<>>
    /\ attempts = <<>>
    /\ failed = {}
    /\ prev_build = NoPrevBuild
    /\ bpc = "idle"

MainIdle ==
    /\ mtodo = <<>>
    /\ documented = {}
    /\ outputs = {}
    /\ lookups = {}
    /\ mpc = "idle"

-----------------------------------------------------------------------------
(* _analyze_job_dependencies as an operation                               *)

DepsJobIds == {"A", "B"}

InitDeps ==
    /\ BuildIdle
    /\ MainIdle
    /\ jobs \in JobTables(DepsJobIds, AllNeeds)
    /\ AnalyzerIdle
    /\ apc = "start"
    /\ GraphIdle
    /\ ExtractIdle

\* analyzer.py 37-52
AnalyzeDeps ==
    /\ apc = "start"
    /\ dependencies' = AnalyzeJobDependencies(jobs)
    /\ apc' = "deps_done"
    /\ UNCHANGED <<jobs, graph, remaining, levels, forced, warnings, prev>>
    /\ UNCHANGED <<gvars, xvars, bvars, mvars>>

NextDeps == AnalyzeDeps

SpecDeps == InitDeps /\ [][NextDeps]_vars

-----------------------------------------------------------------------------
(* _generate_execution_flow                                                *)

InitFlow ==
    /\ BuildIdle
    /\ MainIdle
    /\ jobs \in JobTables(JobIds, FlowNeeds)
    /\ AnalyzerIdle
    /\ apc = "start"
    /\ GraphIdle
    /\ ExtractIdle

\* analyzer.py 146-159
FlowStart ==
    /\ apc = "start"
    /\ graph' = BuildGraph(jobs)
    /\ remaining' = DOMAIN graph'
    /\ levels' = <<>>
    /\ forced' = {}
    /\ warnings' = 0
    /\ apc' = "loop"
    /\ UNCHANGED <<jobs, dependencies, prev>>
    /\ UNCHANGED <<gvars, xvars, bvars, mvars>>

\* analyzer.py 161-171, an iteration whose ready set is not empty
LevelReady ==
    /\ apc = "loop"
    /\ remaining # {}
    /\ LET level == Ready(graph, remaining)
       IN /\ level # {}
          /\ levels' = Append(levels, Sorted(level))
          /\ remaining' = remaining \ level
    /\ UNCHANGED <<jobs, dependencies, graph, forced, warnings, prev, apc>>
    /\ UNCHANGED <<gvars, xvars, bvars, mvars>>

\* analyzer.py 161-171, an iteration whose ready set is empty
LevelCycle ==
    /\ apc = "loop"
    /\ remaining # {}
    /\ Ready(graph, remaining) = {}
    /\ \E level \in CyclePick(remaining) :
          /\ warnings' = warnings + 1
          /\ forced' = forced \cup level
          /\ levels' = Append(levels, Sorted(level))
          /\ remaining' = remaining \ level
    /\ UNCHANGED <<jobs, dependencies, graph, prev, apc>>
    /\ UNCHANGED <<gvars, xvars, bvars, mvars>>

\* analyzer.py 161, 173: the loop ends and levels is returned
FlowReturn ==
    /\ apc = "loop"
    /\ remaining = {}
    /\ apc' = "done"
    /\ UNCHANGED <<jobs, dependencies, graph, remaining, levels, forced, warnings, prev>>
    /\ UNCHANGED <<gvars, xvars, bvars, mvars>>

\* A second run on the same job table (analyze() itself calls the function
\* twice, analyzer.py 29 and 235; the tool is also run again on the same file).
FlowRerun ==
    /\ apc = "done"
    /\ ~prev.has
    /\ prev' = [has |-> TRUE, levels |-> levels]
    /\ apc' = "start"
    /\ UNCHANGED <<jobs, dependencies, graph, remaining, levels, forced, warnings>>
    /\ UNCHANGED <<gvars, xvars, bvars, mvars>>

NextFlow == FlowStart \/ LevelReady \/ LevelCycle \/ FlowReturn \/ FlowRerun

SpecFlow == InitFlow /\ [][NextFlow]_vars

-----------------------------------------------------------------------------
(* Properties of the analyzer                                              *)

\* The identifiers a needs value names.
NamedIn(needs) ==
    IF needs.kind = "str" THEN {needs.id}
    ELSE IF needs.kind = "list" THEN {needs.ids[i] : i \in 1..Len(needs.ids)}
    ELSE {}

\* Every job id plus every identifier named in any needs.
NodeClosure(jobTable) ==
    (DOMAIN jobTable) \cup UNION {NamedIn(jobTable[j]) : j \in DOMAIN jobTable}

\* How many times id occurs in the returned levels.
Occurrences(id) ==
    Cardinality({p \in UNION {{<<k, i>> : i \in DOMAIN levels[k]} : k \in DOMAIN levels} :
                    levels[p[1]][p[2]] = id})

Emitted == UNION {Range(levels[k]) : k \in 1..Len(levels)}

\* The (1-based) index of the level holding n.
LevelOf(n) == CHOOSE k \in 1..Len(levels) : n \in Range(levels[k])

InGraphDeps(n) == graph[n] \cap DOMAIN graph

RECURSIVE ReachableIn(_, _, _)
ReachableIn(g, S, k) ==
    IF k = 0 THEN S
    ELSE ReachableIn(g, S \cup UNION {g[n] \cap DOMAIN g : n \in S}, k - 1)

\* Some node depends on itself through one or more needs edges.
HasCycle(g) ==
    \E n \in DOMAIN g : n \in ReachableIn(g, g[n] \cap DOMAIN g, Cardinality(DOMAIN g))

\* C1: the returned levels are a partition of exactly the node closure of the
\* job table: every job id and every identifier named in a needs occurs in
\* exactly one level, exactly once, and nothing else occurs.
C1_Partition ==
    apc = "done" =>
        \A id \in NodeIds :
            Occurrences(id) = IF id \in NodeClosure(jobs) THEN 1 ELSE 0

C1_Witness ==
    /\ apc = "done"
    /\ Len(levels) >= 2
    /\ NodeClosure(jobs) \ DOMAIN jobs # {}
    /\ Cardinality(DOMAIN jobs) >= 2

\* C2: a node that was not placed by the cycle-breaking branch sits in a
\* strictly later level than each of its dependencies that is a graph node.
C2_LevelValidity ==
    apc = "done" =>
        \A j \in (DOMAIN graph) \ forced :
            \A d \in InGraphDeps(j) : LevelOf(j) > LevelOf(d)

C2_Witness ==
    /\ apc = "done"
    /\ forced # {}
    /\ \E j \in (DOMAIN graph) \ forced : InGraphDeps(j) \cap forced # {}
    /\ \E j \in (DOMAIN graph) \ forced : InGraphDeps(j) # {} /\ InGraphDeps(j) \cap forced = {}

TwoCycleJobs ==
    [j \in {"A", "B"} |-> IF j = "A" THEN NeedsList(<<"B">>) ELSE NeedsList(<<"A">>)]

\* C3: on a graph with dependency cycles every iteration emits one level and
\* removes at least one node, so the loop ends within |nodes| levels; at the
\* end every node has been emitted; A needs B, B needs A gives two levels
\* holding one of A and B each.
C3_CycleTermination ==
    (apc \in {"loop", "done"} /\ HasCycle(graph)) =>
        /\ Len(levels) + Cardinality(remaining) <= Cardinality(DOMAIN graph)
        /\ Emitted \cup remaining = DOMAIN graph
        /\ apc = "done" =>
              /\ Emitted = DOMAIN graph
              /\ Len(levels) <= Cardinality(DOMAIN graph)
              /\ jobs = TwoCycleJobs =>
                    /\ Len(levels) = 2
                    /\ {Range(levels[1]), Range(levels[2])} = {{"A"}, {"B"}}
                    /\ Len(levels[1]) = 1
                    /\ Len(levels[2]) = 1

C3_Witness ==
    /\ apc = "done"
    /\ jobs = TwoCycleJobs
    /\ warnings >= 1

\* C4: two runs on the same job table return the same level sequence.
C4_Deterministic ==
    (apc = "done" /\ prev.has) => levels = prev.levels

ScenarioA ==
    [j \in {"A", "B", "C"} |->
        IF j = "A" THEN NeedsList(<<>>)
        ELSE IF j = "B" THEN NeedsList(<<"A">>)
        ELSE NeedsList(<<"A", "B">>)]

ScenarioC ==
    [j \in {"A", "B"} |-> IF j = "A" THEN NeedsList(<<>>) ELSE NeedsList(<<"Z">>)]

\* C5: on an acyclic graph the first level holds exactly the nodes without
\* an in-graph dependency and every other node sits one level after the
\* latest of its in-graph dependencies; {A:[], B:[A], C:[A,B]} gives
\* [[A],[B],[C]] and {A:[], B:[Z]} gives [[A,Z],[B]].
C5_MinimalLeveling ==
    (apc = "done" /\ ~HasCycle(graph)) =>
        /\ \A n \in DOMAIN graph :
              LevelOf(n) = IF InGraphDeps(n) = {} THEN 1
                           ELSE 1 + Max({LevelOf(d) : d \in InGraphDeps(n)})
        /\ Len(levels) >= 1 =>
              Range(levels[1]) = {n \in DOMAIN graph : InGraphDeps(n) = {}}
        /\ jobs = ScenarioA => levels = << <<"A">>, <<"B">>, <<"C">> >>
        /\ jobs = ScenarioC => levels = << <<"A", "Z">>, <<"B">> >>

C5_Witness ==
    /\ apc = "done"
    /\ jobs = ScenarioA
    /\ Len(levels) = 3

-----------------------------------------------------------------------------
(* find_roots_and_orphans                                                  *)

\* Workflow references of the root/orphan runs; the last is only ever a call
\* target (a reference that was never parsed).
RootRefs == {"root.yml", "mid.yml", "leaf.yml"}

TargetRefs == RootRefs \cup {"missing.yml"}

\* Largest call set drawn as input.
MaxCalls == 2

\* Sequences over S without repetition (glob.glob names a file once).
DistinctSeqs(S) ==
    {q \in SeqsUpTo(S, Cardinality(S)) : \A i, j \in DOMAIN q : i # j => q[i] # q[j]}

CallSets(targets) == {T \in SUBSET targets : Cardinality(T) <= MaxCalls}

\* main.py 318-320
AllCalledOf(cg) == UNION {cg[wf] : wf \in DOMAIN cg}

\* main.py 321 keeping no file.
RootsOfNone(cg, files) == <<>>

\* main.py 321
RootsOf(cg, files) == SelectSeq(files, LAMBDA wf : wf \notin AllCalledOf(cg))

\* main.py 322 without the "not in roots" test.
OrphansOfUncalled(cg, files) ==
    {wf \in DOMAIN cg : wf \notin AllCalledOf(cg)}

\* main.py 322 (the list in dict order; its elements)
OrphansOf(cg, files) ==
    {wf \in DOMAIN cg : wf \notin AllCalledOf(cg) /\ wf \notin Range(RootsOf(cg, files))}

InitRoots ==
    /\ BuildIdle
    /\ MainIdle
    /\ jobs = <<>>
    /\ AnalyzerIdle
    /\ apc = "idle"
    /\ ExtractIdle
    /\ call_graph \in UNION {[K -> CallSets(TargetRefs)] : K \in SUBSET RootRefs}
    /\ workflow_files \in DistinctSeqs(RootRefs)
    /\ roots = <<>>
    /\ orphans = {}
    /\ start = ""
    /\ stack = <<>>
    /\ seen = {}
    /\ result = {}
    /\ expandLog = <<>>
    /\ deepest = 0
    /\ gpc = "start"

\* main.py 316-323
FindRootsAndOrphans ==
    /\ gpc = "start"
    /\ roots' = RootsOf(call_graph, workflow_files)
    /\ orphans' = OrphansOf(call_graph, workflow_files)
    /\ gpc' = "roots_done"
    /\ UNCHANGED <<call_graph, workflow_files, start, stack, seen, result, expandLog, deepest>>
    /\ UNCHANGED <<avars, xvars, bvars, mvars>>

NextRoots == FindRootsAndOrphans

SpecRoots == InitRoots /\ [][NextRoots]_vars

-----------------------------------------------------------------------------
(* collect_all_called                                                      *)

\* main.py 325: max_depth=5
max_depth == 5

\* Names of the workflows of a call chain, the caller first.
RefNames == <<"root.yml", "mid.yml", "leaf.yml", "w4.yml", "w5.yml", "w6.yml",
              "w7.yml", "w8.yml", "w9.yml", "w10.yml">>

\* Longest call chain drawn as input, in calls.
MaxChain == 7

\* Most calls drawn besides those of the chain.
MaxExtra == 1

\* A chain of n calls RefNames[1] -> ... -> RefNames[n+1] plus the extra
\* calls X (pairs caller, callee); the chain's end has an entry of its own
\* when endIsKey.
ChainGraph(n, X, endIsKey) ==
    LET keys == {RefNames[i] : i \in 1..n} \cup {x[1] : x \in X}
                \cup (IF endIsKey THEN {RefNames[n + 1]} ELSE {})
    IN [wf \in keys |->
            {RefNames[i + 1] : i \in {k \in 1..n : RefNames[k] = wf}}
            \cup {x[2] : x \in {y \in X : y[1] = wf}}]

\* The subsets of S with at most k elements.
RECURSIVE SubsetsUpTo(_, _)
SubsetsUpTo(S, k) ==
    IF k = 0 THEN {{}}
    ELSE LET P == SubsetsUpTo(S, k - 1)
         IN P \cup {T \cup {x} : T \in P, x \in S}

ChainGraphs ==
    UNION {{ChainGraph(n, X, e) :
                X \in SubsetsUpTo({RefNames[i] : i \in 1..n + 1} \X {RefNames[i] : i \in 1..n + 1},
                                  MaxExtra),
                e \in BOOLEAN} :
           n \in 0..MaxChain}

\* main.py 332: call_graph.get(wf, [])
CallsOf(cg, wf) == IF wf \in DOMAIN cg THEN cg[wf] ELSE {}

\* main.py 291: call_graph[wf] on the defaultdict(set), which inserts a missing
\* key with an empty set.
GraphAfterIndex(cg, wf) ==
    [k \in DOMAIN cg \cup {wf} |-> IF k \in DOMAIN cg THEN cg[k] ELSE {}]

\* main.py 332: the dictionary after call_graph.get(wf, []), which reads
\* without inserting.
GraphAfterGet(cg, wf) == cg

\* main.py 328 without the test of seen.
PrunedByDepth(wf, depth, seenSet) == depth > max_depth

\* main.py 328: the call returns set() at once
Pruned(wf, depth, seenSet) == depth > max_depth \/ wf \in seenSet

Frame(wf, depth, cg) ==
    [wf |-> wf, depth |-> depth, todo |-> CallsOf(cg, wf), all_called |-> {}]

InitCollect ==
    /\ BuildIdle
    /\ MainIdle
    /\ jobs = <<>>
    /\ AnalyzerIdle
    /\ apc = "idle"
    /\ ExtractIdle
    /\ call_graph \in ChainGraphs
    /\ workflow_files = <<>>
    /\ roots = <<>>
    /\ orphans = {}
    /\ start = RefNames[1]
    /\ stack = <<>>
    /\ seen = {}
    /\ result = {}
    /\ expandLog = <<>>
    /\ deepest = 0
    /\ gpc = "start"

\* main.py 325-331: the outermost call, depth 0 and a fresh seen
CollectCall ==
    /\ gpc = "start"
    /\ ~Pruned(start, 0, {})
    /\ seen' = {start}
    /\ stack' = <<Frame(start, 0, call_graph)>>
    /\ expandLog' = <<start>>
    /\ deepest' = 0
    /\ call_graph' = GraphAfterGet(call_graph, start)
    /\ gpc' = "run"
    /\ UNCHANGED <<workflow_files, roots, orphans, start, result>>
    /\ UNCHANGED <<avars, xvars, bvars, mvars>>

\* main.py 332-334: the loop takes a called reference (in any order) whose
\* recursive call returns set() at once (main.py 328-329)
CollectSkip ==
    /\ gpc = "run"
    /\ LET top == stack[Len(stack)]
       IN \E callee \in top.todo :
             /\ Pruned(callee, top.depth + 1, seen)
             /\ stack' = [stack EXCEPT ![Len(stack)] =
                             [top EXCEPT !.todo = @ \ {callee},
                                         !.all_called = @ \cup {callee}]]
             /\ deepest' = IF top.depth + 1 > deepest THEN top.depth + 1 ELSE deepest
    /\ UNCHANGED <<call_graph, workflow_files, roots, orphans, start, seen, result,
                   expandLog, gpc>>
    /\ UNCHANGED <<avars, xvars, bvars, mvars>>

\* main.py 332-334, 330-331: the loop takes a called reference (in any order)
\* and the recursive call enters its own loop
CollectDescend ==
    /\ gpc = "run"
    /\ LET top == stack[Len(stack)]
       IN \E callee \in top.todo :
             /\ ~Pruned(callee, top.depth + 1, seen)
             /\ seen' = seen \cup {callee}
             /\ stack' = Append([stack EXCEPT ![Len(stack)] =
                                    [top EXCEPT !.todo = @ \ {callee},
                                                !.all_called = @ \cup {callee}]],
                                Frame(callee, top.depth + 1, call_graph))
             /\ expandLog' = Append(expandLog, callee)
             /\ deepest' = IF top.depth + 1 > deepest THEN top.depth + 1 ELSE deepest
             /\ call_graph' = GraphAfterGet(call_graph, callee)
    /\ UNCHANGED <<workflow_files, roots, orphans, start, result, gpc>>
    /\ UNCHANGED <<avars, xvars, bvars, mvars>>

\* main.py 335, 334: a call returns all_called; its caller adds it to its own
CollectReturn ==
    /\ gpc = "run"
    /\ LET top == stack[Len(stack)]
       IN /\ top.todo = {}
          /\ IF Len(stack) = 1
             THEN /\ result' = top.all_called
                  /\ stack' = <<>>
                  /\ gpc' = "done"
             ELSE /\ stack' = [SubSeq(stack, 1, Len(stack) - 1) EXCEPT ![Len(stack) - 1] =
                                  [@ EXCEPT !.all_called = @ \cup top.all_called]]
                  /\ UNCHANGED <<result, gpc>>
    /\ UNCHANGED <<call_graph, workflow_files, roots, orphans, start, seen, expandLog, deepest>>
    /\ UNCHANGED <<avars, xvars, bvars, mvars>>

NextCollect == CollectCall \/ CollectSkip \/ CollectDescend \/ CollectReturn

SpecCollect == InitCollect /\ [][NextCollect]_vars

\* The discovered lists find_roots_and_orphans is given with a chain graph.
FrameFiles == {<<>>, <<RefNames[1]>>, <<RefNames[2], RefNames[1]>>}

\* Either function is called on a call graph: find_roots_and_orphans with a
\* discovered list, or collect_all_called from the head of the chain.
InitFrame ==
    /\ BuildIdle
    /\ MainIdle
    /\ jobs = <<>>
    /\ AnalyzerIdle
    /\ apc = "idle"
    /\ ExtractIdle
    /\ call_graph \in ChainGraphs
    /\ workflow_files \in FrameFiles
    /\ roots = <<>>
    /\ orphans = {}
    /\ start = RefNames[1]
    /\ stack = <<>>
    /\ seen = {}
    /\ result = {}
    /\ expandLog = <<>>
    /\ deepest = 0
    /\ gpc = "start"

NextFrame == FindRootsAndOrphans \/ NextCollect

SpecFrame == InitFrame /\ [][NextFrame]_vars

\* The interpreter goes on running a call that can take a step.
SpecCollectFair == SpecCollect /\ WF_vars(NextCollect)

-----------------------------------------------------------------------------
(* Properties of the call-graph functions                                  *)

\* The references a call path of 1..k edges leads to from the set S.
RECURSIVE WithinEdges(_, _, _)
WithinEdges(cg, S, k) ==
    IF k = 0 THEN {}
    ELSE LET N == UNION {CallsOf(cg, wf) : wf \in S}
         IN N \cup WithinEdges(cg, N, k - 1)

ReachableFrom(cg, wf) ==
    WithinEdges(cg, {wf}, Cardinality((DOMAIN cg) \cup AllCalledOf(cg)) + 1)

ChainRootMidLeaf ==
    [wf \in {"root.yml", "mid.yml", "leaf.yml"} |->
        IF wf = "root.yml" THEN {"mid.yml"}
        ELSE IF wf = "mid.yml" THEN {"leaf.yml"}
        ELSE {}]

\* C7: roots are exactly the discovered files in no call set; orphans are
\* exactly the keys that are in no call set and not discovered; so a
\* discovered file is a root or called, never both, and a key that was not
\* discovered is an orphan or called, never both; root -> mid -> leaf, all
\* discovered, gives the roots {root} and no orphan.
C7_RootsAndOrphans ==
    gpc = "roots_done" =>
        LET files == Range(workflow_files)
            targets == UNION {call_graph[k] : k \in DOMAIN call_graph}
        IN /\ Range(roots) = {f \in files : f \notin targets}
           /\ orphans = {k \in DOMAIN call_graph : k \notin targets /\ k \notin files}
           /\ \A f \in files : (f \in Range(roots)) # (f \in targets)
           /\ \A k \in (DOMAIN call_graph) \ files : (k \in orphans) # (k \in targets)
           /\ (call_graph = ChainRootMidLeaf /\ files = DOMAIN call_graph) =>
                 (Range(roots) = {"root.yml"} /\ orphans = {})

C7_Witness ==
    /\ gpc = "roots_done"
    /\ call_graph = ChainRootMidLeaf
    /\ workflow_files = <<"leaf.yml", "root.yml", "mid.yml">>
    /\ roots = <<"root.yml">>

\* C8: collect_all_called returns every reference that a call path of at
\* most max_depth edges leads to from start, and only references reachable
\* from start, in whatever order the call sets are iterated; for
\* root -> mid -> leaf it returns {mid, leaf}.
C8_CollectsReachable ==
    gpc = "done" =>
        /\ WithinEdges(call_graph, {start}, max_depth) \subseteq result
        /\ result \subseteq ReachableFrom(call_graph, start)
        /\ call_graph = ChainRootMidLeaf => result = {"mid.yml", "leaf.yml"}

-----------------------------------------------------------------------------
(* Python str and os.path operations, over TLA+ strings                    *)

\* s.startswith(p)
StartsWith(s, p) == Len(s) >= Len(p) /\ SubSeq(s, 1, Len(p)) = p

\* s.endswith(p)
EndsWith(s, p) == Len(s) >= Len(p) /\ SubSeq(s, Len(s) - Len(p) + 1, Len(s)) = p

\* s.find(sub) + 1 searching from index from: 0 when sub does not occur
RECURSIVE FindFrom(_, _, _)
FindFrom(s, sub, from) ==
    IF from + Len(sub) - 1 > Len(s) THEN 0
    ELSE IF SubSeq(s, from, from + Len(sub) - 1) = sub THEN from
    ELSE FindFrom(s, sub, from + 1)

\* sub in s
Contains(s, sub) == FindFrom(s, sub, 1) # 0

\* s.count(ch) for a one-character ch
CountChar(s, ch) == Cardinality({i \in 1..Len(s) : SubSeq(s, i, i) = ch})

\* s.split(sep, 1)
SplitOnce(s, sep) ==
    LET i == FindFrom(s, sep, 1)
    IN IF i = 0 THEN <<s>>
       ELSE <<SubSeq(s, 1, i - 1), SubSeq(s, i + Len(sep), Len(s))>>

\* s.split(sep)
RECURSIVE Split(_, _)
Split(s, sep) ==
    LET i == FindFrom(s, sep, 1)
    IN IF i = 0 THEN <<s>>
       ELSE <<SubSeq(s, 1, i - 1)>> \o Split(SubSeq(s, i + Len(sep), Len(s)), sep)

\* s.rstrip(ch) for a one-character ch
RECURSIVE RStrip(_, _)
RStrip(s, ch) ==
    IF Len(s) > 0 /\ SubSeq(s, Len(s), Len(s)) = ch
    THEN RStrip(SubSeq(s, 1, Len(s) - 1), ch)
    ELSE s

\* sep.join(parts)
RECURSIVE JoinWith(_, _)
JoinWith(parts, sep) ==
    IF Len(parts) = 0 THEN ""
    ELSE IF Len(parts) = 1 THEN parts[1]
    ELSE parts[1] \o sep \o JoinWith(Tail(parts), sep)

\* s.rfind(ch) + 1 for a one-character ch
RECURSIVE RFindChar(_, _, _)
RFindChar(s, ch, i) ==
    IF i = 0 THEN 0
    ELSE IF SubSeq(s, i, i) = ch THEN i
    ELSE RFindChar(s, ch, i - 1)

\* os.path.dirname(p) (posixpath)
PathDirname(p) ==
    LET i == RFindChar(p, "/", Len(p))
        head == SubSeq(p, 1, i)
    IN IF head # "" /\ RStrip(head, "/") # "" THEN RStrip(head, "/") ELSE head

\* os.path.join(a, b) (posixpath)
PathJoin(a, b) ==
    IF StartsWith(b, "/") THEN b
    ELSE IF a = "" \/ EndsWith(a, "/") THEN a \o b
    ELSE a \o "/" \o b

\* the loop of posixpath.normpath over the components
RECURSIVE NormComps(_, _, _)
NormComps(comps, new, rooted) ==
    IF comps = <<>> THEN new
    ELSE LET comp == Head(comps)
         IN IF comp = "" \/ comp = "." THEN NormComps(Tail(comps), new, rooted)
            ELSE IF \/ comp # ".."
                    \/ (~rooted /\ new = <<>>)
                    \/ (new # <<>> /\ new[Len(new)] = "..")
                 THEN NormComps(Tail(comps), Append(new, comp), rooted)
            ELSE IF new # <<>>
                 THEN NormComps(Tail(comps), SubSeq(new, 1, Len(new) - 1), rooted)
            ELSE NormComps(Tail(comps), new, rooted)

\* os.path.normpath(path) (posixpath)
PathNormpath(path) ==
    IF path = "" THEN "."
    ELSE LET slashes == IF ~StartsWith(path, "/") THEN ""
                        ELSE IF StartsWith(path, "//") /\ ~StartsWith(path, "///") THEN "//"
                        ELSE "/"
             body == JoinWith(NormComps(Split(path, "/"), <<>>, slashes # ""), "/")
         IN IF slashes \o body = "" THEN "." ELSE slashes \o body

-----------------------------------------------------------------------------
(* extract_called_workflows                                                *)

NoCall == [raised |-> FALSE, add |-> {}]
AddCall(key) == [raised |-> FALSE, add |-> {key}]
Raises == [raised |-> TRUE, add |-> {}]
Calls(S) == [raised |-> FALSE, add |-> S]

\* main.py 235-242: the remote branch
ExtractRemote(uses) ==
    LET parts == SplitOnce(uses, ".github/workflows/")
    IN IF Len(parts) # 2 THEN Raises
       ELSE LET repo == Split(RStrip(parts[1], "/"), "/")
                file_and_ref == Split(parts[2], "@")
            IN IF Len(repo) >= 2 /\ Len(file_and_ref) = 2
               THEN AddCall("remote::" \o repo[Len(repo) - 1] \o "/" \o repo[Len(repo)]
                            \o "::.github/workflows/" \o file_and_ref[1]
                            \o "@" \o file_and_ref[2])
               ELSE NoCall

\* main.py 231-252 with the prefix tests of 243 and 247 made before the test
\* of 234.
ExtractUsesLocalFirst(uses, wd, path) ==
    IF ~(uses # "" /\ EndsWith(uses, ".yml")) THEN NoCall
    ELSE IF StartsWith(uses, ".github/workflows/") \/ StartsWith(uses, "./.github/workflows/")
         THEN AddCall(PathNormpath(PathJoin(wd,
                  IF StartsWith(uses, "./") THEN SubSeq(uses, 3, Len(uses)) ELSE uses)))
    ELSE IF StartsWith(uses, "./")
         THEN AddCall(PathNormpath(PathJoin(PathDirname(path), uses)))
    ELSE IF Contains(uses, "/") /\ CountChar(uses, "/") >= 3 /\ Contains(uses, "@")
         THEN ExtractRemote(uses)
    ELSE AddCall(PathNormpath(PathJoin(wd, uses)))

\* main.py 231-252: what one job's uses does to called
ExtractUses(uses, wd, path) ==
    IF ~(uses # "" /\ EndsWith(uses, ".yml")) THEN NoCall
    ELSE IF Contains(uses, "/") /\ CountChar(uses, "/") >= 3 /\ Contains(uses, "@")
         THEN ExtractRemote(uses)
    ELSE IF StartsWith(uses, ".github/workflows/") \/ StartsWith(uses, "./.github/workflows/")
         THEN AddCall(PathNormpath(PathJoin(wd,
                  IF StartsWith(uses, "./") THEN SubSeq(uses, 3, Len(uses)) ELSE uses)))
    ELSE IF StartsWith(uses, "./")
         THEN AddCall(PathNormpath(PathJoin(PathDirname(path), uses)))
    ELSE AddCall(PathNormpath(PathJoin(wd, uses)))

\* The uses values drawn as input; "" is a job without uses.
UsesValues ==
    {"",
     "org/repo/.github/workflows/build.yml@v2",
     "org/repo/.github/workflows/build.yml@v2.yml",
     "org/repo/.github/workflows/build.yml",
     "org/repo/.github/workflows/build@v1@v2.yml",
     "org/repo/sub/build@v2.yml",
     "/.github/workflows/build@v2.yml",
     "actions/checkout@v3",
     "actions/build.yml",
     "actions/checkout/.github/workflows/build.yml@v3.yml",
     ".github/workflows/build.yml",
     "./.github/workflows/build.yml",
     "./.github/workflows/build@v2.yml",
     "./.github/workflows/../workflows/build.yml",
     "./build.yml",
     "./sub/../build.yml",
     "build.yml",
     "build.yaml",
     "./build.yaml"}

\* Most jobs in a parsed workflow drawn as input.
MaxUsesJobs == 2

\* workdir and the path of the workflow being read (main.py 373, 382: the
\* glob of a pattern joined to the workspace).
ExtractPlaces ==
    {<<"/ws", "/ws/.github/workflows/ci.yml">>,
     <<".", "./.github/workflows/ci.yml">>}

InitExtract ==
    /\ BuildIdle
    /\ MainIdle
    /\ jobs = <<>>
    /\ AnalyzerIdle
    /\ apc = "idle"
    /\ GraphIdle
    /\ xjobs \in SeqsUpTo(UsesValues, MaxUsesJobs)
    /\ \E place \in ExtractPlaces :
          /\ workdir = place[1]
          /\ current_workflow_path = place[2]
    /\ xi = 1
    /\ called = {}
    /\ xpc = "loop"

\* main.py 230-252: one iteration of the loop over jobs.values()
ExtractJob ==
    /\ xpc = "loop"
    /\ xi <= Len(xjobs)
    /\ LET r == ExtractUses(xjobs[xi], workdir, current_workflow_path)
       IN /\ ~r.raised
          /\ called' = called \cup r.add
          /\ xi' = xi + 1
    /\ UNCHANGED <<xjobs, workdir, current_workflow_path, xpc>>
    /\ UNCHANGED <<avars, gvars, bvars, mvars>>

\* main.py 235: the unpacking of a one-element split raises ValueError
ExtractRaise ==
    /\ xpc = "loop"
    /\ xi <= Len(xjobs)
    /\ ExtractUses(xjobs[xi], workdir, current_workflow_path).raised
    /\ xpc' = "raised"
    /\ UNCHANGED <<xjobs, workdir, current_workflow_path, xi, called>>
    /\ UNCHANGED <<avars, gvars, bvars, mvars>>

\* main.py 253
ExtractReturn ==
    /\ xpc = "loop"
    /\ xi > Len(xjobs)
    /\ xpc' = "done"
    /\ UNCHANGED <<xjobs, workdir, current_workflow_path, xi, called>>
    /\ UNCHANGED <<avars, gvars, bvars, mvars>>

NextExtract == ExtractJob \/ ExtractRaise \/ ExtractReturn

SpecExtract == InitExtract /\ [][NextExtract]_vars

-----------------------------------------------------------------------------
(* Properties of extract_called_workflows                                  *)

\* uses has the shape org/repo/.github/workflows/<file>@<ref>.
IsRemoteShape(uses) ==
    LET p == SplitOnce(uses, "/.github/workflows/")
    IN /\ Len(p) = 2
       /\ Len(Split(p[1], "/")) = 2
       /\ \A i \in 1..2 : Split(p[1], "/")[i] # ""
       /\ Len(Split(p[2], "@")) = 2
       /\ \A i \in 1..2 : Split(p[2], "@")[i] # ""
       /\ ~Contains(p[2], "/")

\* The remote call carrying org, repo, filePath and ref of such a uses.
RemoteCallOf(uses) ==
    LET p == SplitOnce(uses, "/.github/workflows/")
        who == Split(p[1], "/")
        what == Split(p[2], "@")
    IN "remote::" \o who[1] \o "/" \o who[2] \o "::.github/workflows/" \o what[1]
       \o "@" \o what[2]

\* C9: a job whose uses has the shape org/repo/.github/workflows/<file>@<ref>
\* is recorded as the remote call carrying that org, repo, file path and ref;
\* so is org/repo/.github/workflows/build.yml@v2.
C9_RemoteRecorded ==
    xpc = "done" =>
        /\ \A i \in 1..Len(xjobs) :
              IsRemoteShape(xjobs[i]) => RemoteCallOf(xjobs[i]) \in called
        /\ \A i \in 1..Len(xjobs) :
              xjobs[i] = "org/repo/.github/workflows/build.yml@v2" =>
                  "remote::org/repo::.github/workflows/build.yml@v2" \in called

\* uses ends in a workflow-file suffix and is not under actions/.
IsWorkflowCall(uses) ==
    /\ EndsWith(uses, ".yml") \/ EndsWith(uses, ".yaml")
    /\ ~StartsWith(uses, "actions/")

\* C10: a uses adds to the call set only if it ends in a workflow-file
\* suffix and is not under actions/: when no job of the workflow has such a
\* uses, the call set is empty.
C10_OnlyWorkflowCalls ==
    xpc = "done" =>
        ((\A i \in 1..Len(xjobs) : ~IsWorkflowCall(xjobs[i])) => called = {})

-----------------------------------------------------------------------------
(* parse_workflow_file and the files it reads                              *)

\* What parse_workflow_file hands back: parsed data (of which the model keeps
\* the uses of the jobs, in dict order), None, or an exception.
ParseOk(uses) == [kind |-> "ok", uses |-> uses]
ParseNone == [kind |-> "none", uses |-> <<>>]
ParseRaises == [kind |-> "raise", uses |-> <<>>]

\* Content of a location: a workflow with the given uses, or text that
\* yaml.safe_load rejects.  A location outside DOMAIN w does not exist.
Workflow(uses) == [valid |-> TRUE, uses |-> uses]
InvalidYaml == [valid |-> FALSE, uses |-> <<>>]

\* The process's working directory (os.getcwd()).
cwd == "/ws"

\* os.path.abspath
PathAbspath(path) ==
    IF StartsWith(path, "/") THEN PathNormpath(path) ELSE PathNormpath(PathJoin(cwd, path))

\* main.py 257
RemoteUrl(org, repo, file_path, ref) ==
    "https://raw.githubusercontent.com/" \o org \o "/" \o repo \o "/" \o ref \o "/" \o file_path

\* parser.py 23-72: WorkflowParser(path).parse(); any exception is re-raised
ParserParse(path, w) ==
    IF path \in DOMAIN w /\ w[path].valid THEN ParseOk(w[path].uses) ELSE ParseRaises

\* main.py 255-263 and 273-281: a status other than 200 gives None
ParseRemote(org, repo, file_path, ref, w) ==
    LET url == RemoteUrl(org, repo, file_path, ref)
    IN IF url \in DOMAIN w THEN ParserParse(url, w) ELSE ParseNone

\* The same without the test of the fetched content (main.py 273).
ParseRemoteUnchecked(org, repo, file_path, ref, w) ==
    ParserParse(RemoteUrl(org, repo, file_path, ref), w)

\* main.py 265-286; the three unpackings of main.py 269-271 raise ValueError
\* when a split has another number of parts
ParseWorkflowFile(path, w) ==
    IF StartsWith(path, "remote::")
    THEN LET parts == Split(path, "::")
         IN IF Len(parts) # 3 THEN ParseRaises
            ELSE LET repo_part == Split(parts[2], "/")
                     file_and_ref == Split(parts[3], "@")
                 IN IF Len(repo_part) # 2 \/ Len(file_and_ref) # 2 THEN ParseRaises
                    ELSE ParseRemote(repo_part[1], repo_part[2],
                                     file_and_ref[1], file_and_ref[2], w)
    ELSE ParserParse(PathAbspath(path), w)

\* main.py 225-253 as a function of the uses of the jobs
RECURSIVE ExtractCalledWorkflows(_, _, _)
ExtractCalledWorkflows(uses, wd, path) ==
    IF uses = <<>> THEN NoCall
    ELSE LET r == ExtractUses(Head(uses), wd, path)
         IN IF r.raised THEN Raises
            ELSE LET rest == ExtractCalledWorkflows(Tail(uses), wd, path)
                 IN IF rest.raised THEN Raises ELSE Calls(r.add \cup rest.add)

-----------------------------------------------------------------------------
(* build_workflow_call_graph                                               *)

\* main.py 299: range(5)
RoundCap == 5

\* Longest chain of workflow files drawn as input.
MaxBuildChain == 6

\* Longest chain of workflow files drawn as input of main and of a rebuild.
MaxMainChain == 3

\* config["workspace"]: an absolute directory, or the default "."
BuildPlaces == {"/ws", "."}

\* main.py 366, 373: a file found by glob under the joined pattern
DiscoveredPath(wd, name) == wd \o "/.github/workflows/" \o name

\* Where that file is on disk.
DiskPath(name) == "/ws/.github/workflows/" \o name

\* The ways a workflow names a local workflow file in uses.
LinkForms == {"rel", "ws", "dotws", "up", "none"}

LinkUse(form, name) ==
    CASE form = "rel" -> <<"./" \o name>>
      [] form = "ws" -> <<".github/workflows/" \o name>>
      [] form = "dotws" -> <<"./.github/workflows/" \o name>>
      [] form = "up" -> <<"./../workflows/" \o name>>
      [] OTHER -> <<>>

\* Remote uses (of the only shape that ends in .yml): one whose URL answers
\* 404, one that is a workflow without calls, one whose workflow calls ./helper.yml
GoneUses == "org/repo/.github/workflows/gone@v1.yml"
LibUses == "org/repo/.github/workflows/lib@v1.yml"
LibRelUses == "org/repo/.github/workflows/librel@v1.yml"

RemoteHost ==
    (RemoteUrl("org", "repo", ".github/workflows/lib", "v1.yml") :> Workflow(<<>>))
    @@ (RemoteUrl("org", "repo", ".github/workflows/librel", "v1.yml")
            :> Workflow(<<"./helper.yml">>))

\* What the last file of the chain holds besides its link.
ChainTails(form) ==
    {[invalid |-> FALSE, uses |-> u] :
        u \in {<<>>, <<GoneUses>>, <<LibUses>>, <<LibRelUses>>, <<"./nofile.yml">>,
               <<"org/repo/sub/build@v2.yml">>, LinkUse(form, RefNames[1])}}
    \cup {[invalid |-> TRUE, uses |-> <<>>]}

\* The files RefNames[1..n] on disk: each calls the next in the given form,
\* the last holds the tail, and file extra (if any) also calls GoneUses.
DiskWorld(n, form, tail, extra) ==
    LET idx(p) == CHOOSE i \in 1..n : DiskPath(RefNames[i]) = p
    IN [p \in {DiskPath(RefNames[i]) : i \in 1..n} |->
            IF idx(p) = n /\ tail.invalid THEN InvalidYaml
            ELSE Workflow((IF idx(p) < n THEN LinkUse(form, RefNames[idx(p) + 1]) ELSE <<>>)
                          \o (IF idx(p) = n THEN tail.uses ELSE <<>>)
                          \o (IF idx(p) = extra THEN <<GoneUses>> ELSE <<>>))]

\* The discovered files, as indexes into RefNames, in glob order.
DiscoveredIndexes(n) == {d \in {<<1>>, <<1, 2>>, <<2, 1>>} : \A i \in DOMAIN d : d[i] <= n}

\* dict assignment and defaultdict(set) update
Put(f, k, v) == IF k \in DOMAIN f THEN [f EXCEPT ![k] = v] ELSE f @@ (k :> v)
UpdateKeyOnly(cg, k, S) == IF k \in DOMAIN cg THEN cg ELSE cg @@ (k :> {})
Update(cg, k, S) == IF k \in DOMAIN cg THEN [cg EXCEPT ![k] = @ \cup S] ELSE cg @@ (k :> S)
Inserted(order, k) == IF k \in Range(order) THEN order ELSE Append(order, k)
Counted(f, k) == IF k \in DOMAIN f THEN [f EXCEPT ![k] = @ + 1] ELSE f @@ (k :> 1)

\* main.py 293-297 and 306-309: parse a reference and extract the calls of
\* its jobs; an exception of either leaves build_workflow_call_graph
BuildOk(uses, calls) == [kind |-> "ok", uses |-> uses, calls |-> calls]
BuildNone == [kind |-> "none", uses |-> <<>>, calls |-> {}]
BuildRaises == [kind |-> "raise", uses |-> <<>>, calls |-> {}]

ParseAndExtract(ref, wd, w) ==
    LET r == ParseWorkflowFile(ref, w)
    IN IF r.kind = "raise" THEN BuildRaises
       ELSE IF r.kind = "none" THEN BuildNone
       ELSE LET x == ExtractCalledWorkflows(r.uses, wd, ref)
            IN IF x.raised THEN BuildRaises ELSE BuildOk(r.uses, x.add)

\* main.py 305
NeedsParse(ref, p) == ref \notin DOMAIN p

\* main.py 311 with nothing recorded.
NewCallsNone(nc, new_called) == {}

\* main.py 311
NewCalls(nc, new_called) == nc \cup new_called

\* main.py 312-313 without the range(5) of main.py 300.
LoopEndsOnEmpty(nc, r) == nc = {}

\* main.py 300 without the break of main.py 312-313.
LoopEndsAtCap(nc, r) == r >= RoundCap

\* main.py 300, 312-313: the loop ends on an empty new_calls or after range(5)
LoopEnds(nc, r) == nc = {} \/ r >= RoundCap

InitBuildWith(chains, forms) ==
    /\ jobs = <<>>
    /\ AnalyzerIdle
    /\ apc = "idle"
    /\ xjobs = <<>>
    /\ current_workflow_path = ""
    /\ xi = 0
    /\ called = {}
    /\ xpc = "idle"
    /\ workdir \in BuildPlaces
    /\ \E n \in chains, form \in forms :
          \E tail \in ChainTails(form), extra \in 0..(IF n < 2 THEN n ELSE 2),
             d \in DiscoveredIndexes(n) :
             /\ world = DiskWorld(n, form, tail, extra) @@ RemoteHost
             /\ workflow_files = [i \in DOMAIN d |-> DiscoveredPath(workdir, RefNames[d[i]])]
    /\ call_graph = <<>>
    /\ roots = <<>>
    /\ orphans = {}
    /\ start = ""
    /\ stack = <<>>
    /\ seen = {}
    /\ result = {}
    /\ expandLog = <<>>
    /\ deepest = 0
    /\ gpc = "idle"
    /\ parsed = <<>>
    /\ key_order = <<>>
    /\ round = 0
    /\ bi = 1
    /\ bkeys = <<>>
    /\ btodo = {}
    /\ new_calls = {}
    /\ round_new = <<>>
    /\ attempts = <<>>
    /\ failed = {}
    /\ prev_build = NoPrevBuild
    /\ bpc = "files"

InitBuild ==
    /\ InitBuildWith(1..MaxBuildChain, LinkForms)
    /\ MainIdle

\* main.py 292-298: one iteration of the loop over the discovered files
BuildDiscovered ==
    /\ bpc = "files"
    /\ bi <= Len(workflow_files)
    /\ LET wf == workflow_files[bi]
           r == ParseAndExtract(wf, workdir, world)
       IN /\ attempts' = Counted(attempts, wf)
          /\ IF r.kind = "raise"
             THEN /\ bpc' = "raised"
                  /\ UNCHANGED <<parsed, call_graph, key_order, bi, failed>>
             ELSE IF r.kind = "none"
             THEN /\ failed' = failed \cup {wf}
                  /\ bi' = bi + 1
                  /\ UNCHANGED <<parsed, call_graph, key_order, bpc>>
             ELSE /\ parsed' = Put(parsed, wf, r.uses)
                  /\ call_graph' = Update(call_graph, wf, r.calls)
                  /\ key_order' = Inserted(key_order, wf)
                  /\ bi' = bi + 1
                  /\ UNCHANGED <<failed, bpc>>
    /\ UNCHANGED <<world, prev_build, round, bkeys, btodo, new_calls, round_new>>
    /\ UNCHANGED <<workflow_files, roots, orphans, start, stack, seen, result,
                   expandLog, deepest, gpc>>
    /\ UNCHANGED <<avars, xvars, mvars>>

\* main.py 300-302: the first round begins
BuildFirstRound ==
    /\ bpc = "files"
    /\ bi > Len(workflow_files)
    /\ round' = 1
    /\ new_calls' = {}
    /\ bkeys' = key_order
    /\ bpc' = "round"
    /\ UNCHANGED <<world, prev_build, parsed, key_order, bi, btodo, round_new, attempts, failed>>
    /\ UNCHANGED <<avars, gvars, xvars, mvars>>

\* main.py 302-304: the loop over the static list of keys takes the next key
BuildVisitKey ==
    /\ bpc = "round"
    /\ btodo = {}
    /\ bkeys # <<>>
    /\ btodo' = call_graph[Head(bkeys)]
    /\ bkeys' = Tail(bkeys)
    /\ UNCHANGED <<world, prev_build, parsed, key_order, round, bi, new_calls, round_new, attempts,
                   failed, bpc>>
    /\ UNCHANGED <<avars, gvars, xvars, mvars>>

\* main.py 304-311: the loop over list(calls) takes a called reference (in any
\* order)
BuildCalled ==
    /\ bpc = "round"
    /\ \E ref \in btodo :
          /\ btodo' = btodo \ {ref}
          /\ IF ~NeedsParse(ref, parsed)
             THEN UNCHANGED <<parsed, call_graph, key_order, new_calls, attempts, failed, bpc>>
             ELSE LET r == ParseAndExtract(ref, workdir, world)
                  IN /\ attempts' = Counted(attempts, ref)
                     /\ IF r.kind = "raise"
                        THEN /\ bpc' = "raised"
                             /\ UNCHANGED <<parsed, call_graph, key_order, new_calls, failed>>
                        ELSE IF r.kind = "none"
                        THEN /\ failed' = failed \cup {ref}
                             /\ UNCHANGED <<parsed, call_graph, key_order, new_calls, bpc>>
                        ELSE /\ parsed' = Put(parsed, ref, r.uses)
                             /\ call_graph' = Update(call_graph, ref, r.calls)
                             /\ key_order' = Inserted(key_order, ref)
                             /\ new_calls' = NewCalls(new_calls, r.calls)
                             /\ UNCHANGED <<failed, bpc>>
    /\ UNCHANGED <<world, prev_build, round, bi, bkeys, round_new>>
    /\ UNCHANGED <<workflow_files, roots, orphans, start, stack, seen, result,
                   expandLog, deepest, gpc>>
    /\ UNCHANGED <<avars, xvars, mvars>>

\* main.py 312-314 and 300-302: a round ends; the loop ends or the next round
\* begins
BuildRoundEnd ==
    /\ bpc = "round"
    /\ btodo = {}
    /\ bkeys = <<>>
    /\ round_new' = Append(round_new, new_calls)
    /\ IF LoopEnds(new_calls, round)
       THEN /\ bpc' = "built"
            /\ UNCHANGED <<round, new_calls, bkeys>>
       ELSE /\ round' = round + 1
            /\ new_calls' = {}
            /\ bkeys' = key_order
            /\ UNCHANGED bpc
    /\ UNCHANGED <<world, prev_build, parsed, key_order, bi, btodo, attempts, failed>>
    /\ UNCHANGED <<avars, gvars, xvars, mvars>>

\* main.py 382: the tool is run again on the same files and the same remote
\* content
BuildRerun ==
    /\ bpc = "built"
    /\ ~prev_build.has
    /\ prev_build' = [has |-> TRUE, parsed |-> parsed, call_graph |-> call_graph]
    /\ parsed' = <<>>
    /\ call_graph' = <<>>
    /\ key_order' = <<>>
    /\ round' = 0
    /\ bi' = 1
    /\ bkeys' = <<>>
    /\ btodo' = {}
    /\ new_calls' = {}
    /\ round_new' = <<>>
    /\ attempts' = <<>>
    /\ failed' = {}
    /\ bpc' = "files"
    /\ UNCHANGED world
    /\ UNCHANGED <<workflow_files, roots, orphans, start, stack, seen, result,
                   expandLog, deepest, gpc>>
    /\ UNCHANGED <<avars, xvars, mvars>>

NextBuild == BuildDiscovered \/ BuildFirstRound \/ BuildVisitKey \/ BuildCalled \/ BuildRoundEnd

SpecBuild == InitBuild /\ [][NextBuild]_vars

\* build_workflow_call_graph run twice on the same files
InitRebuild ==
    /\ InitBuildWith(1..MaxMainChain, LinkForms)
    /\ MainIdle

NextRebuild == NextBuild \/ BuildRerun

SpecRebuild == InitRebuild /\ [][NextRebuild]_vars

-----------------------------------------------------------------------------
(* Properties of build_workflow_call_graph                                 *)

\* C11: during one run of build_workflow_call_graph, parse_workflow_file is
\* called at most once for each reference that is a call target, references
\* whose fetch fails and references called by several workflows included.
C11_ParsedOnce ==
    \A ref \in DOMAIN attempts \cap AllCalledOf(call_graph) : attempts[ref] <= 1

\* The references that were called, not discovered, and handed to
\* parse_workflow_file.
CalledAttempted == (DOMAIN attempts \cap AllCalledOf(call_graph)) \ Range(workflow_files)

\* C12: when a called (not discovered) reference, local or remote, cannot be
\* fetched or parsed, build_workflow_call_graph does not raise: it goes on and
\* returns.
C12_CalledFailureContained ==
    \A ref \in CalledAttempted :
        ParseWorkflowFile(ref, world).kind # "ok" => bpc # "raised"

-----------------------------------------------------------------------------
(* main: build the call graph, then document the roots and the orphans     *)

\* main.py 394 without its "if w in parsed".
IncludedKeysUnguarded(all_called, p) == all_called

\* main.py 394: the keys the included_workflows comprehension indexes parsed with
IncludedKeys(all_called, p) == {w \in all_called : w \in DOMAIN p}

InitMain ==
    /\ InitBuildWith(1..MaxMainChain, LinkForms)
    /\ mtodo = <<>>
    /\ documented = {}
    /\ outputs = {}
    /\ lookups = {}
    /\ mpc = "build"

\* main.py 536-538: an exception of build_workflow_call_graph ends main
MainBuildFailed ==
    /\ mpc = "build"
    /\ bpc = "raised"
    /\ mpc' = "failed"
    /\ UNCHANGED <<mtodo, documented, outputs, lookups>>
    /\ UNCHANGED <<avars, gvars, xvars, bvars>>

\* main.py 382-386
MainFindRoots ==
    /\ mpc = "build"
    /\ bpc = "built"
    /\ roots' = RootsOf(call_graph, workflow_files)
    /\ orphans' = OrphansOf(call_graph, workflow_files)
    /\ documented' = {}
    /\ mtodo' = RootsOf(call_graph, workflow_files)
    /\ mpc' = "roots"
    /\ UNCHANGED <<outputs, lookups>>
    /\ UNCHANGED <<call_graph, workflow_files, start, stack, seen, result, expandLog,
                   deepest, gpc>>
    /\ UNCHANGED <<avars, xvars, bvars>>

\* main.py 386-389: the loop takes the next root and calls collect_all_called
MainRoot ==
    /\ mpc = "roots"
    /\ mtodo # <<>>
    /\ start' = Head(mtodo)
    /\ gpc' = "start"
    /\ mpc' = "collect"
    /\ UNCHANGED <<mtodo, documented, outputs, lookups>>
    /\ UNCHANGED <<call_graph, workflow_files, roots, orphans, stack, seen, result,
                   expandLog, deepest>>
    /\ UNCHANGED <<avars, xvars, bvars>>

\* main.py 390-473: the root's document is generated from parsed[root] and the
\* parsed data of what it calls; a KeyError ends main (main.py 536-538)
MainDocumentRoot ==
    /\ mpc = "collect"
    /\ gpc = "done"
    /\ LET keys == {start} \cup IncludedKeys(result, parsed)
       IN /\ lookups' = lookups \cup keys
          /\ IF keys \subseteq DOMAIN parsed
             THEN /\ outputs' = outputs \cup {start}
                  /\ documented' = documented \cup {start} \cup result
                  /\ mtodo' = Tail(mtodo)
                  /\ mpc' = "roots"
             ELSE /\ mpc' = "failed"
                  /\ UNCHANGED <<outputs, documented, mtodo>>
    /\ gpc' = "idle"
    /\ UNCHANGED <<call_graph, workflow_files, roots, orphans, start, stack, seen, result,
                   expandLog, deepest>>
    /\ UNCHANGED <<avars, xvars, bvars>>

\* main.py 474-535: the loop over the orphans, then return 0
MainOrphans ==
    /\ mpc = "roots"
    /\ mtodo = <<>>
    /\ LET keys == orphans \ documented
       IN /\ lookups' = lookups \cup keys
          /\ IF keys \subseteq DOMAIN parsed
             THEN /\ outputs' = outputs \cup keys
                  /\ mpc' = "done"
             ELSE /\ mpc' = "failed"
                  /\ UNCHANGED outputs
    /\ UNCHANGED <<mtodo, documented>>
    /\ UNCHANGED <<avars, gvars, xvars, bvars>>

NextMain ==
    \/ BuildDiscovered \/ BuildFirstRound \/ BuildVisitKey \/ BuildCalled \/ BuildRoundEnd
    \/ MainBuildFailed \/ MainFindRoots \/ MainRoot
    \/ CollectCall \/ CollectSkip \/ CollectDescend \/ CollectReturn
    \/ MainDocumentRoot \/ MainOrphans

SpecMain == InitMain /\ [][NextMain]_vars

\* C13: when a discovered workflow file fails to parse, only that file is
\* abandoned: every other discovered file is still documented, as a root or
\* within a root's document.
C13_DiscoveredFailureContained ==
    (mpc \in {"failed", "done"}
     /\ \A ref \in DOMAIN attempts :
            ParseAndExtract(ref, workdir, world).kind = "raise"
            => ref \in Range(workflow_files) /\ ParseWorkflowFile(ref, world).kind = "raise")
    => \A wf \in Range(workflow_files) :
           ParseAndExtract(wf, workdir, world).kind = "ok" => wf \in documented

\* The called references a further round (main.py 302-311) would add to
\* parsed and call_graph.
FurtherRoundAdds ==
    {ref \in AllCalledOf(call_graph) :
        NeedsParse(ref, parsed) /\ ParseAndExtract(ref, workdir, world).kind # "none"}

\* The build returned after a round in which new_calls stayed empty.
FixedPoint == bpc = "built" /\ round_new[Len(round_new)] = {}

\* C14: once a round has discovered no new reference, a further round would
\* change neither parsed nor call_graph, and building again from the same
\* files and the same remote content returns the same parsed and call_graph.
C14_Idempotent ==
    FixedPoint =>
        /\ FurtherRoundAdds = {}
        /\ prev_build.has =>
              /\ DOMAIN parsed = DOMAIN prev_build.parsed
              /\ parsed = prev_build.parsed
              /\ call_graph = prev_build.call_graph

C14_Witness ==
    /\ FixedPoint
    /\ prev_build.has
    /\ round >= 3
    /\ failed # {}
    /\ \E wf \in DOMAIN call_graph : Cardinality(call_graph[wf]) >= 2

\* C20: a called reference whose fetch or parse failed is not a key of parsed
\* though it stays in the call sets, and after the build main indexes parsed
\* only with keys it has: for a root, for what the root calls, for an orphan.
C20_NoAbsentLookup ==
    /\ failed \cap DOMAIN parsed = {}
    /\ \A ref \in DOMAIN attempts :
          ParseAndExtract(ref, workdir, world).kind # "ok" => ref \notin DOMAIN parsed
    /\ lookups \subseteq DOMAIN parsed
    /\ mpc = "failed" => bpc = "raised"

C20_Witness ==
    /\ mpc = "done"
    /\ failed \cap AllCalledOf(call_graph) # {}
    /\ failed \cap documented # {}
    /\ outputs # {}

\* The local (not remote::) references among S.
LocalRefs(S) == {ref \in S : ~StartsWith(ref, "remote::")}

\* C15: one local workflow file has one key, however it is named (as a
\* discovered path or by any form of uses), so a discovered file that another
\* workflow calls is not a root.
C15_OneKeyPerFile ==
    /\ \A a, b \in LocalRefs(DOMAIN parsed \cup AllCalledOf(call_graph)
                             \cup Range(workflow_files)) :
          PathAbspath(a) = PathAbspath(b) => a = b
    /\ \A root \in Range(roots), ref \in LocalRefs(AllCalledOf(call_graph)) :
          PathAbspath(root) # PathAbspath(ref)

CapReached ==
    /\ bpc = "built"
    /\ round = RoundCap
    /\ round_new[round] # {}
    /\ ~(AllCalledOf(call_graph) \subseteq DOMAIN parsed \cup failed)

-----------------------------------------------------------------------------
(* Further properties of the analyzer and of extract_called_workflows      *)

\* C16: the dependency map is closed over the identifiers it names: an
\* identifier in some job's dependencies that is not a job of the table is a
\* key of the map too, with no dependencies.
C16_ClosedMap ==
    apc = "deps_done" =>
        \A j \in DOMAIN dependencies :
            \A dep \in Range(dependencies[j]) \ DOMAIN jobs :
                dep \in DOMAIN dependencies /\ dependencies[dep] = <<>>

\* The nodes still in remaining when level k was computed.
RemainingAt(k) == DOMAIN graph \ UNION {Range(levels[i]) : i \in 1..(k - 1)}

\* C17: a node emitted by the cycle-breaking branch is the lowest identifier,
\* in sort order, of the nodes remaining at that iteration, and each such
\* emission prints one diagnostic.
C17_ForcedIsLowest ==
    apc \in {"loop", "done"} =>
        /\ warnings = Cardinality(forced)
        /\ \A n \in forced :
              /\ levels[LevelOf(n)] = <<n>>
              /\ \A m \in RemainingAt(LevelOf(n)) : Rank(n) <= Rank(m)

\* A uses that no classification rule accepts: it ends in .yml and has three
\* or more '/' and an '@', but no .github/workflows/ segment or several '@'.
Malformed(uses) ==
    /\ EndsWith(uses, ".yml")
    /\ CountChar(uses, "/") >= 3
    /\ Contains(uses, "@")
    /\ ~Contains(uses, ".github/workflows/") \/ CountChar(uses, "@") > 1

\* C18: a uses that matches no classification rule is ignored:
\* extract_called_workflows does not raise on it, adds nothing for it and goes
\* on to the remaining jobs.
C18_MalformedIgnored ==
    /\ xpc = "raised" => ~Malformed(xjobs[xi])
    /\ xpc = "loop" => \A i \in 1..(xi - 1) :
                          Malformed(xjobs[i]) => ExtractUses(xjobs[i], workdir,
                                                    current_workflow_path).add = {}
    /\ (xpc = "done" /\ \A i \in DOMAIN xjobs : Malformed(xjobs[i])) => called = {}

\* A uses that has the remote shape: three or more '/' and an '@'.
RemoteTest(uses) == CountChar(uses, "/") >= 3 /\ Contains(uses, "@")

\* The directory a local uses resolves against.
BaseOf(uses, wd, path) ==
    IF StartsWith(uses, ".github/workflows/") \/ StartsWith(uses, "./.github/workflows/")
    THEN wd
    ELSE IF StartsWith(uses, "./") THEN PathDirname(path)
    ELSE wd

\* The uses of the jobs that end in .yml and have not the remote shape.
LocalUses == {u \in Range(xjobs) : EndsWith(u, ".yml") /\ ~RemoteTest(u)}

\* C21: a local uses resolves against the workspace root when it begins with
\* .github/workflows/ or ./.github/workflows/, against the directory of the
\* referencing workflow when it begins with ./ otherwise, and against the
\* workspace root in every other case; a uses of the remote shape is never
\* resolved as a local one.
C21_LocalResolution ==
    xpc = "done" =>
        LocalRefs(called) =
            {PathNormpath(PathJoin(BaseOf(u, workdir, current_workflow_path), u)) :
                u \in LocalUses}

C21_Witness ==
    /\ xpc = "done"
    /\ workdir = "/ws"
    /\ xjobs = <<"./.github/workflows/build@v2.yml", "./build.yml">>
    /\ called = {"/ws/.github/workflows/build.yml"}

\* The nodes of rem none of whose dependencies is another node of rem.
NoOtherRemaining(rem) == {n \in rem : (graph[n] \ {n}) \cap rem = {}}

\* The nodes of rem none of whose dependencies is in rem.
NoRemaining(rem) == {n \in rem : graph[n] \cap rem = {}}

\* C22: a node is ready in an iteration exactly when its dependencies hold no
\* other remaining node; a job that needs only itself is ready and is leveled
\* without the cycle diagnostic.
C22_ReadyIgnoresSelf ==
    apc \in {"loop", "done"} =>
        \A k \in 1..Len(levels) :
            NoOtherRemaining(RemainingAt(k)) # {} =>
                /\ Range(levels[k]) = NoOtherRemaining(RemainingAt(k))
                /\ Range(levels[k]) \cap forced = {}

\* C22 as the code has it: a node is ready in an iteration exactly when its
\* dependencies hold no remaining node, the node itself included; a job that
\* needs itself is never ready and is placed by the cycle-breaking branch.
C22_ReadyCountsSelf ==
    apc \in {"loop", "done"} =>
        /\ \A k \in 1..Len(levels) :
              IF NoRemaining(RemainingAt(k)) # {}
              THEN /\ Range(levels[k]) = NoRemaining(RemainingAt(k))
                   /\ Range(levels[k]) \cap forced = {}
              ELSE /\ Len(levels[k]) = 1
                   /\ Range(levels[k]) \subseteq forced
        /\ \A n \in Emitted : n \in graph[n] => n \in forced

C22_Witness ==
    /\ apc = "done"
    /\ "A" \in forced
    /\ graph["A"] = {"A"}
    /\ Len(levels) >= 2
    /\ warnings = 1

\* C23: every level is non-empty and strictly ascending by identifier (so no
\* identifier is repeated in it), and an empty job table gives no level.
C23_LevelsSorted ==
    apc \in {"loop", "done"} =>
        /\ \A k \in 1..Len(levels) :
              /\ Len(levels[k]) >= 1
              /\ \A i \in 1..(Len(levels[k]) - 1) :
                    Rank(levels[k][i]) < Rank(levels[k][i + 1])
        /\ (apc = "done" /\ DOMAIN jobs = {}) => levels = <<>>

C23_Witness ==
    /\ apc = "done"
    /\ Len(levels) = 2
    /\ levels[1] = <<"A", "Z">>
    /\ levels[2] = <<"B", "C">>

\* The leveling of the empty job table has returned.
EmptyTableLeveled == apc = "done" /\ DOMAIN jobs = {} /\ levels = <<>>

-----------------------------------------------------------------------------
(* Further properties of the call-graph functions                          *)

\* C24: collect_all_called ends on every call graph, self-calls and longer
\* cycles included; within one outermost call no reference has its call set
\* iterated twice and no call has a depth above max_depth + 1.
C24_Terminates ==
    /\ [](/\ \A i, j \in DOMAIN expandLog : i # j => expandLog[i] # expandLog[j]
          /\ deepest <= max_depth + 1
          /\ Len(stack) <= max_depth + 1)
    /\ <>(gpc = "done")

C24_Witness ==
    /\ gpc = "done"
    /\ deepest = max_depth + 1
    /\ \E wf \in DOMAIN call_graph \cap seen : start \in call_graph[wf] /\ wf # start

\* The first loop has just ended, or a round has.
LoopBoundary ==
    \/ bpc = "files" /\ bi > Len(workflow_files)
    \/ bpc = "round" /\ btodo = {} /\ bkeys = <<>>
    \/ bpc = "built"

\* C25: at the end of the first loop and of every round, call_graph and
\* parsed have the same keys, and the call set of a key is the set of calls
\* extracted from its parsed data.
C25_KeysAgree ==
    LoopBoundary =>
        /\ DOMAIN call_graph = DOMAIN parsed
        /\ Range(key_order) = DOMAIN call_graph
        /\ \A k \in DOMAIN parsed :
              call_graph[k] = ExtractCalledWorkflows(parsed[k], workdir, k).add

C25_Witness ==
    /\ bpc = "built"
    /\ round >= 3
    /\ Cardinality(DOMAIN parsed) >= 3
    /\ failed # {}
    /\ \E k \in DOMAIN call_graph : Cardinality(call_graph[k]) >= 2

\* C26: on a call graph returned by build_workflow_call_graph and the
\* discovered files it was built from, find_roots_and_orphans returns no
\* orphan, so the orphan loop of main documents nothing.
C26_NoOrphans ==
    /\ bpc = "built" => OrphansOf(call_graph, workflow_files) = {}
    /\ mpc \in {"roots", "collect", "done"} => orphans = {}
    /\ mpc = "done" => outputs \subseteq Range(roots)

C26_Witness ==
    /\ mpc = "done"
    /\ roots # <<>>
    /\ DOMAIN call_graph \ Range(workflow_files) # {}
    /\ failed # {}

\* The workflows main has written into some document: a root or an orphan
\* with a document of its own, or a workflow included in a root's document.
DocumentedSet == documented \cup outputs

\* The discovered files calling each other in a cycle.
DiscoveredCycle ==
    \E a, b \in Range(workflow_files) \cap DOMAIN call_graph :
        /\ a # b
        /\ b \in call_graph[a]
        /\ a \in call_graph[b]

\* C27: when main has processed all roots and orphans, every successfully
\* parsed discovered workflow is in the documented set, also when discovered
\* workflows call each other in a cycle.
C27_DiscoveredDocumented ==
    mpc = "done" => Range(workflow_files) \cap DOMAIN parsed \subseteq DocumentedSet

\* C28: find_roots_and_orphans and collect_all_called leave the call graph as
\* it was: no step of either adds a key or changes a call set, also when the
\* start or a call target is not a key of the graph.
C28_GraphUnchanged ==
    [][/\ DOMAIN call_graph' = DOMAIN call_graph
       /\ \A wf \in DOMAIN call_graph : call_graph'[wf] = call_graph[wf]]_vars

\* collect_all_called has returned after expanding a call target that is not
\* a key of the graph.
C28_Witness ==
    /\ gpc = "done"
    /\ (seen \ {start}) \ DOMAIN call_graph # {}
    /\ Cardinality(seen) >= 3

\* The nodes n depends on, directly or through other nodes, and n itself.
DependsOn(n) == ReachableIn(graph, {n}, Cardinality(DOMAIN graph))

\* m lies on a dependency cycle of the graph.
OnCycle(m) == m \in ReachableIn(graph, InGraphDeps(m), Cardinality(DOMAIN graph))

\* n neither lies on a cycle nor depends on a node of a cycle.
CycleFree(n) == \A m \in DependsOn(n) : ~OnCycle(m)

\* C29: a node that neither lies on a dependency cycle nor depends on a node
\* of one is never the forcibly placed node, and its level is strictly
\* greater than the level of each of its dependencies, also when the graph
\* has cycles elsewhere.
C29_CycleFreeNotForced ==
    apc \in {"loop", "done"} =>
        \A n \in DOMAIN graph :
            CycleFree(n) =>
                /\ n \notin forced
                /\ n \in Emitted =>
                      \A dep \in InGraphDeps(n) :
                          dep \in Emitted /\ LevelOf(dep) < LevelOf(n)

C29_Witness ==
    /\ apc = "done"
    /\ forced # {}
    /\ \E n \in DOMAIN graph : CycleFree(n) /\ InGraphDeps(n) # {}

\* The parsed discovered files and the references a call path of 1..k edges
\* leads to from one of them.
NearDiscovered(k) ==
    LET D == Range(workflow_files) \cap DOMAIN parsed
    IN D \cup WithinEdges(call_graph, D, k)

\* C30: when build_workflow_call_graph has returned, every key of parsed that
\* is not a discovered file is within 5 call edges of a parsed discovered
\* file, along parsed workflows; a reference whose shortest call path has 6
\* or more edges is not a key, though it may be in a call set.
C30_ParsedWithinFiveEdges ==
    bpc = "built" =>
        /\ DOMAIN parsed \ Range(workflow_files) \subseteq NearDiscovered(RoundCap)
        /\ \A ref \in AllCalledOf(call_graph) \ NearDiscovered(RoundCap) :
              ref \notin DOMAIN parsed

C30_Witness ==
    /\ bpc = "built"
    /\ DOMAIN parsed \ NearDiscovered(RoundCap - 1) # {}
    /\ \E ref \in AllCalledOf(call_graph) \ NearDiscovered(RoundCap) :
          ParseAndExtract(ref, workdir, world).kind = "ok"

====
